---- MODULE Spec2Model ----
(***************************************************************************)
(* The plate stability/confirmation tracker of the four OCR programs:      *)
(*   app_trial_livestream.py, plate_capture_easyocr_livestream.py          *)
(*     (module-level plates_seen / confirmed_plates / lock,                *)
(*      exit_watcher and detection_loop), and                              *)
(*   app_trial_upload.py, plate_capture_easyocr_upload.py                  *)
(*     (class LPProcessor, _exit_watcher and detection_loop; the two       *)
(*      files hold the same text for both methods, so they are one         *)
(*      implementation here).                                              *)
(* Time is time.time() in whole seconds; confidences are in percent.       *)
(***************************************************************************)
EXTENDS Integers, Sequences, FiniteSets, TLC

VARIABLES
    impl,              \* which program is running
    plates_seen,       \* dict: plate text -> candidate record
    confirmed_plates,  \* set of confirmed texts
    recorded_plates,   \* set of texts whose debug images were saved
    clock,             \* time.time()
    now_ts,            \* the reaper's local now_ts
    pc_reaper,         \* where the reaper is: "sample" or "sweep"
    loop_alive,        \* the detection loop has not been ended by an exception
    observation,       \* the detection handled by the latest step, if any
    emitted,           \* publish_event calls made by the latest step
    accepted,          \* history: observations of a text since its candidate was created
    best,              \* history: maximum confidence observed since creation
    phase,             \* history: "none", "entered", "expired", "evicted", "reentered"
    vote_texts,        \* input of the majority vote taken alone
    vote_result,       \* its result
    program,           \* the file that is run
    lost,              \* history: confirmed texts whose entry event was not delivered
    lock,              \* threading.Lock(): "free", or the thread that holds it
    pc_producer,       \* where the detection loop is
    expired_pids,      \* the reaper's local list expired
    stop,              \* _camera_thread_stop is set
    frame_texts,       \* texts the loop has handled in the frame it is in
    saves,             \* history: times the confirmation path saved debug images
    last_call,         \* the latest of start_camera_in_thread, stop_camera_thread
    camera_alive       \* detection_loop threads begun by start_camera_in_thread, alive

vars == <<impl, plates_seen, confirmed_plates, recorded_plates, clock, now_ts,
          pc_reaper, loop_alive, observation, emitted, accepted, best, phase,
          vote_texts, vote_result, program, lost, lock, pc_producer,
          expired_pids, stop, frame_texts, saves, last_call, camera_alive>>

\* the camera thread and the calls that begin and end it
camera == <<last_call, camera_alive>>

\* what the threads taken step by step add to the state
threads == <<lost, lock, pc_producer, expired_pids, stop, frame_texts, saves,
             camera>>

(* ------------------------------- bounds -------------------------------- *)
MaxTime == 30
TickStep == 15
MaxCount == 6
MaxVoteLen == 4
MaxLongTime == 45

(* ------------------------------ constants ------------------------------ *)
Impls == {"app_trial_livestream", "plate_capture_easyocr_livestream",
          "LPProcessor"}
ModuleLevel == {"app_trial_livestream", "plate_capture_easyocr_livestream"}

\* the four files
Programs == {"app_trial_livestream", "plate_capture_easyocr_livestream",
             "app_trial_upload", "plate_capture_easyocr_upload"}

\* the tracker a file holds
ImplOf(file) ==
    IF file \in {"app_trial_upload", "plate_capture_easyocr_upload"}
    THEN "LPProcessor" ELSE file

\* one file for each tracker text
TrackerPrograms == {"app_trial_livestream", "plate_capture_easyocr_livestream",
                    "app_trial_upload"}

Texts == {"AB12CD", "AB12CE"}
VoteTexts == {"AB12CD", "AB12CE", "XYZ999"}
Confs == {85, 95}
Crops == {"crop1", "crop2"}

EXIT_TIMEOUT == 15

STABILITY_COUNT == IF impl = "app_trial_livestream" THEN 3 ELSE 5

(* ------------------------------ helpers -------------------------------- *)
Range(s) == {s[i] : i \in 1..Len(s)}

Max(a, b) == IF a >= b THEN a ELSE b

\* texts.count(t)
TextsCount(texts, t) == Cardinality({i \in 1..Len(texts) : texts[i] = t})

\* faulty variant: the first text of the list instead of the most frequent one
MajorityVote_first(texts) == {texts[1]}

\* max(set(texts), key=texts.count): the first maximum in the iteration order
\* of a set of strings, which is not fixed; every maximal element can be it.
MajorityVote(texts) ==
    {t \in Range(texts) :
        \A u \in Range(texts) : TextsCount(texts, u) <= TextsCount(texts, t)}

\* the dict entry written for a text not yet in plates_seen
NewCandidate(plate_text, conf, t, crop) ==
    IF impl = "LPProcessor"
    THEN [count |-> 1, last_seen |-> t, conf |-> conf,
          texts |-> <<plate_text>>, crop |-> crop]
    ELSE [count |-> 1, last_seen |-> t, conf |-> conf,
          texts |-> <<plate_text>>]

\* faulty variant: the update forgets count += 1
UpdatedCandidate_nocount(cand, plate_text, conf, t, crop) ==
    IF impl = "LPProcessor"
    THEN [count |-> cand.count, last_seen |-> t,
          conf |-> Max(cand.conf, conf),
          texts |-> Append(cand.texts, plate_text), crop |-> crop]
    ELSE [count |-> cand.count, last_seen |-> t,
          conf |-> Max(cand.conf, conf),
          texts |-> Append(cand.texts, plate_text)]

\* faulty variant: the update stores the latest confidence instead of the maximum
UpdatedCandidate_lastconf(cand, plate_text, conf, t, crop) ==
    IF impl = "LPProcessor"
    THEN [count |-> cand.count + 1, last_seen |-> t, conf |-> conf,
          texts |-> Append(cand.texts, plate_text), crop |-> crop]
    ELSE [count |-> cand.count + 1, last_seen |-> t, conf |-> conf,
          texts |-> Append(cand.texts, plate_text)]

\* faulty variant: the update leaves last_seen as it was
UpdatedCandidate_stale(cand, plate_text, conf, t, crop) ==
    IF impl = "LPProcessor"
    THEN [count |-> cand.count + 1, last_seen |-> cand.last_seen,
          conf |-> Max(cand.conf, conf),
          texts |-> Append(cand.texts, plate_text), crop |-> crop]
    ELSE [count |-> cand.count + 1, last_seen |-> cand.last_seen,
          conf |-> Max(cand.conf, conf),
          texts |-> Append(cand.texts, plate_text)]

\* the in-place update of an existing dict entry
UpdatedCandidate(cand, plate_text, conf, t, crop) ==
    IF impl = "LPProcessor"
    THEN [count |-> cand.count + 1, last_seen |-> t,
          conf |-> Max(cand.conf, conf),
          texts |-> Append(cand.texts, plate_text), crop |-> crop]
    ELSE [count |-> cand.count + 1, last_seen |-> t,
          conf |-> Max(cand.conf, conf),
          texts |-> Append(cand.texts, plate_text)]

\* faulty variant: a candidate last seen too long ago is begun again
Tracked_expiring(seen, plate_text, conf, t, crop) ==
    [p \in DOMAIN seen \cup {plate_text} |->
        IF p # plate_text THEN seen[p]
        ELSE IF \/ plate_text \notin DOMAIN seen
                \/ t - seen[plate_text].last_seen > EXIT_TIMEOUT
             THEN NewCandidate(plate_text, conf, t, crop)
             ELSE UpdatedCandidate(seen[plate_text], plate_text, conf, t, crop)]

\* plates_seen after the lookup-and-update of one observation
Tracked(seen, plate_text, conf, t, crop) ==
    [p \in DOMAIN seen \cup {plate_text} |->
        IF p # plate_text THEN seen[p]
        ELSE IF plate_text \notin DOMAIN seen
             THEN NewCandidate(plate_text, conf, t, crop)
             ELSE UpdatedCandidate(seen[plate_text], plate_text, conf, t, crop)]

\* faulty variant: >= in place of >
ExpiredAt_inclusive(seen, now) ==
    {p \in DOMAIN seen : now - seen[p].last_seen >= EXIT_TIMEOUT}

\* expired = [p for p, v in plates_seen.items() if now_ts - v["last_seen"] > EXIT_TIMEOUT]
ExpiredAt(seen, now) ==
    {p \in DOMAIN seen : now - seen[p].last_seen > EXIT_TIMEOUT}

\* faulty variant: the loop ends after its first deletion
Deleted_first(seen, pids) ==
    IF pids = {} THEN seen
    ELSE [p \in DOMAIN seen \ {CHOOSE q \in pids : TRUE} |-> seen[p]]

\* for pid in expired: del plates_seen[pid]
Deleted(seen, pids) == [p \in DOMAIN seen \ pids |-> seen[p]]

\* the crop handed to publish_event
PublishedCrop(cand, crop) == IF impl = "LPProcessor" THEN cand.crop ELSE crop

\* one publish_event call
Event(event_type, plate_text, confidence, crop_img, ok) ==
    [event |-> event_type, plate |-> plate_text, confidence |-> confidence,
     crop |-> crop_img, delivered |-> ok]

(* ------------------------------- history ------------------------------- *)
AcceptedAfter(plate_text) ==
    [accepted EXCEPT ![plate_text] =
        IF plate_text \in DOMAIN plates_seen THEN @ + 1 ELSE 1]

BestAfter(plate_text, conf) ==
    [best EXCEPT ![plate_text] =
        IF plate_text \in DOMAIN plates_seen THEN Max(@, conf) ELSE conf]

PhaseAfterEntry(final_text) ==
    [phase EXCEPT ![final_text] =
        IF @ \in {"expired", "evicted"} THEN "reentered" ELSE "entered"]

PhaseAfterSweep(gone, unconfirmed) ==
    [p \in Texts |->
        IF p \in gone /\ phase[p] \in {"entered", "reentered"}
        THEN (IF p \in unconfirmed THEN "evicted" ELSE "expired")
        ELSE phase[p]]

\* history kept by every sweep
Swept(gone, unconfirmed) ==
    /\ accepted' = [p \in Texts |-> IF p \in gone THEN 0 ELSE accepted[p]]
    /\ best' = [p \in Texts |-> IF p \in gone THEN 0 ELSE best[p]]
    /\ phase' = PhaseAfterSweep(gone, unconfirmed)

NoObservation == [plate_text |-> "", conf |-> 0, crop |-> ""]

\* a step that handles no detection and publishes nothing
Quiet ==
    /\ observation' = NoObservation
    /\ emitted' = <<>>

(* -------------------------------- state -------------------------------- *)
EmptyMap == [p \in {} |-> p]

\* the threads before they take any step
ThreadsInit ==
    /\ lost = {}
    /\ lock = "free"
    /\ pc_producer = "loop"
    /\ expired_pids = {}
    /\ stop = FALSE
    /\ frame_texts = {}
    /\ saves = [p \in Texts |-> 0]
    /\ last_call = IF impl = "LPProcessor" THEN "start" ELSE "none"
    /\ camera_alive = IF impl = "LPProcessor" THEN 1 ELSE 0

Init ==
    /\ program \in TrackerPrograms
    /\ impl = ImplOf(program)
    /\ ThreadsInit
    /\ plates_seen = EmptyMap
    /\ confirmed_plates = {}
    /\ recorded_plates = {}
    /\ clock = 0
    /\ now_ts = 0
    /\ pc_reaper = "sample"
    /\ loop_alive = TRUE
    /\ observation = NoObservation
    /\ emitted = <<>>
    /\ accepted = [p \in Texts |-> 0]
    /\ best = [p \in Texts |-> 0]
    /\ phase = [p \in Texts |-> "none"]
    /\ vote_texts = <<>>
    /\ vote_result = "none"

\* time passes
Tick ==
    /\ clock + TickStep <= MaxTime
    /\ clock' = clock + TickStep
    /\ Quiet
    /\ UNCHANGED <<impl, plates_seen, confirmed_plates, recorded_plates, now_ts,
                   pc_reaper, loop_alive, accepted, best, phase,
                   vote_texts, vote_result, program, threads>>

\* the reaper reads the clock before it takes the lock
exit_watcher_now ==
    /\ pc_reaper = "sample"
    /\ now_ts' = clock
    /\ pc_reaper' = "sweep"
    /\ Quiet
    /\ UNCHANGED <<impl, plates_seen, confirmed_plates, recorded_plates, clock,
                   loop_alive, accepted, best, phase,
                   vote_texts, vote_result, program, threads>>

\* module-level exit_watcher: the body under the lock
exit_watcher ==
    /\ impl \in ModuleLevel
    /\ pc_reaper = "sweep"
    /\ LET expired == ExpiredAt(plates_seen, now_ts)
       IN /\ plates_seen' = Deleted(plates_seen, expired)
          /\ Swept(expired, {})
    /\ pc_reaper' = "sample"
    /\ Quiet
    /\ UNCHANGED <<impl, confirmed_plates, recorded_plates, clock, now_ts,
                   loop_alive, vote_texts, vote_result, program, threads>>

\* LPProcessor._exit_watcher: the body under the lock
LPProcessor_exit_watcher ==
    /\ impl = "LPProcessor"
    /\ pc_reaper = "sweep"
    /\ LET expired == ExpiredAt(plates_seen, now_ts)
       IN /\ confirmed_plates' = confirmed_plates \ expired
          /\ plates_seen' = Deleted(plates_seen, expired)
          /\ Swept(expired, expired \cap confirmed_plates)
    /\ pc_reaper' = "sample"
    /\ Quiet
    /\ UNCHANGED <<impl, recorded_plates, clock, now_ts, loop_alive,
                   vote_texts, vote_result, program, threads>>

\* faulty variant: the membership test is lost
AlreadyConfirmed_never(text) == FALSE

\* text not in confirmed_plates, negated
AlreadyConfirmed(text) == text \in confirmed_plates

\* faulty variant: the event carries the confidence of the confirming observation
Published_latest(final_text, cand, conf, crop, ok) ==
    <<Event("entry", final_text, conf, PublishedCrop(cand, crop), ok)>>

\* faulty variant: publish_event is called twice
Published_twice(final_text, cand, conf, crop, ok) ==
    <<Event("entry", final_text, cand.conf, PublishedCrop(cand, crop), ok),
      Event("entry", final_text, cand.conf, PublishedCrop(cand, crop), ok)>>

\* the publish_event call of a confirmation
Published(final_text, cand, conf, crop, ok) ==
    <<Event("entry", final_text, cand.conf, PublishedCrop(cand, crop), ok)>>

\* count >= STABILITY_COUNT
Stable(cand) == cand.count >= STABILITY_COUNT

\* faulty variant: the filter of plate_capture_easyocr_livestream.process_image
TooShort_empty(plate_text) == Len(plate_text) < 1

\* if len(plate_text) < 4: continue
TooShort(plate_text) == Len(plate_text) < 4

\* the frames the model lets the loop process: counts stay within MaxCount
Processable(plate_text) ==
    /\ loop_alive
    /\ ~TooShort(plate_text)
    /\ plate_text \in DOMAIN plates_seen => plates_seen[plate_text].count < MaxCount

\* what every observation leaves behind: its inputs and the history
Observed(plate_text, conf, crop) ==
    /\ observation' = [plate_text |-> plate_text, conf |-> conf, crop |-> crop]
    /\ accepted' = AcceptedAfter(plate_text)
    /\ best' = BestAfter(plate_text, conf)

\* app_trial_livestream.detection_loop: the body under the lock, for one box.
\* publish_event has no handler around client.publish: a failure ends the loop.
detection_loop_trial(plate_text, conf, crop, ok) ==
    /\ impl = "app_trial_livestream"
    /\ Processable(plate_text)
    /\ LET seen == Tracked(plates_seen, plate_text, conf, clock, crop)
           cand == seen[plate_text]
       IN /\ plates_seen' = seen
          /\ IF Stable(cand) /\ ~AlreadyConfirmed(plate_text)
             THEN \E final_text \in MajorityVote(cand.texts) :
                    /\ confirmed_plates' = confirmed_plates \cup {final_text}
                    /\ emitted' = Published(final_text, cand, conf, crop, ok)
                    /\ loop_alive' = ok
                    /\ phase' = PhaseAfterEntry(final_text)
             ELSE /\ ok   \* no publish_event call: its outcome is no input
                  /\ emitted' = <<>>
                  /\ UNCHANGED <<confirmed_plates, loop_alive, phase>>
    /\ Observed(plate_text, conf, crop)
    /\ UNCHANGED <<impl, recorded_plates, clock, now_ts, pc_reaper,
                   vote_texts, vote_result, program, threads>>

\* plate_capture_easyocr_livestream.detection_loop: the body under the lock.
\* saved: save_debug_images returned (it is called inside try/except).
detection_loop_easyocr(plate_text, conf, crop, ok, saved) ==
    /\ impl = "plate_capture_easyocr_livestream"
    /\ Processable(plate_text)
    /\ LET seen == Tracked(plates_seen, plate_text, conf, clock, crop)
           cand == seen[plate_text]
       IN /\ plates_seen' = seen
          /\ \E final_text \in MajorityVote(cand.texts) :
               IF Stable(cand) /\ ~AlreadyConfirmed(final_text)
               THEN /\ confirmed_plates' = confirmed_plates \cup {final_text}
                    /\ recorded_plates' =
                         IF final_text \notin recorded_plates /\ saved
                         THEN recorded_plates \cup {final_text}
                         ELSE recorded_plates
                    /\ emitted' = Published(final_text, cand, conf, crop, ok)
                    /\ phase' = PhaseAfterEntry(final_text)
               ELSE /\ ok /\ saved   \* neither call is made
                    /\ emitted' = <<>>
                    /\ UNCHANGED <<confirmed_plates, recorded_plates, phase>>
    /\ Observed(plate_text, conf, crop)
    /\ UNCHANGED <<impl, clock, now_ts, pc_reaper, loop_alive,
                   vote_texts, vote_result, program, threads>>

\* LPProcessor.detection_loop (both upload programs): the body under the lock
LPProcessor_detection_loop(plate_text, conf, crop, ok) ==
    /\ impl = "LPProcessor"
    /\ Processable(plate_text)
    /\ LET seen == Tracked(plates_seen, plate_text, conf, clock, crop)
           cand == seen[plate_text]
       IN /\ plates_seen' = seen
          /\ \E final_text \in MajorityVote(cand.texts) :
               IF Stable(cand) /\ ~AlreadyConfirmed(final_text)
               THEN /\ confirmed_plates' = confirmed_plates \cup {final_text}
                    /\ emitted' = Published(final_text, cand, conf, crop, ok)
                    /\ phase' = PhaseAfterEntry(final_text)
               ELSE /\ ok   \* no publish_event call: its outcome is no input
                    /\ emitted' = <<>>
                    /\ UNCHANGED <<confirmed_plates, phase>>
    /\ Observed(plate_text, conf, crop)
    /\ UNCHANGED <<impl, recorded_plates, clock, now_ts, pc_reaper,
                   loop_alive, vote_texts, vote_result, program, threads>>

Next ==
    \/ Tick
    \/ exit_watcher_now
    \/ exit_watcher
    \/ LPProcessor_exit_watcher
    \/ \E plate_text \in Texts, conf \in Confs, crop \in Crops, ok \in BOOLEAN :
         \/ detection_loop_trial(plate_text, conf, crop, ok)
         \/ \E saved \in BOOLEAN :
              detection_loop_easyocr(plate_text, conf, crop, ok, saved)
         \/ LPProcessor_detection_loop(plate_text, conf, crop, ok)

Spec == Init /\ [][Next]_vars

(* ------------------- the majority vote taken alone --------------------- *)
\* every list of at most MaxVoteLen texts
VoteInputs ==
    UNION {[1..n -> VoteTexts] : n \in 1..MaxVoteLen}

InitVote ==
    /\ program = "app_trial_upload"
    /\ impl = "LPProcessor"
    /\ ThreadsInit
    /\ plates_seen = EmptyMap
    /\ confirmed_plates = {}
    /\ recorded_plates = {}
    /\ clock = 0
    /\ now_ts = 0
    /\ pc_reaper = "sample"
    /\ loop_alive = TRUE
    /\ observation = NoObservation
    /\ emitted = <<>>
    /\ accepted = [p \in Texts |-> 0]
    /\ best = [p \in Texts |-> 0]
    /\ phase = [p \in Texts |-> "none"]
    /\ vote_texts \in VoteInputs
    /\ vote_result = "none"

\* final_text = max(set(texts), key=texts.count)
Vote ==
    /\ vote_result = "none"
    /\ vote_result' \in MajorityVote(vote_texts)
    /\ UNCHANGED <<impl, plates_seen, confirmed_plates, recorded_plates, clock,
                   now_ts, pc_reaper, loop_alive, observation, emitted,
                   accepted, best, phase, vote_texts, program, threads>>

NextVote == Vote

SpecVote == InitVote /\ [][NextVote]_vars

(* ---------- the four programs, with process_image and long runs -------- *)
\* what run_ocr returns: the texts above and one of three characters
OcrTexts == Texts \cup {"AB1"}

\* faulty variant: process_image publishes under the tag of the detection loop
UploadTag_entry(file) == "entry"

\* the event_type that LPProcessor.process_image hands to publish_event
UploadTag(file) == IF file = "app_trial_upload" THEN "ENTRY" ELSE "upload_test"

InitPrograms ==
    /\ program \in Programs
    /\ impl = ImplOf(program)
    /\ ThreadsInit
    /\ plates_seen = EmptyMap
    /\ confirmed_plates = {}
    /\ recorded_plates = {}
    /\ clock = 0
    /\ now_ts = 0
    /\ pc_reaper = "sample"
    /\ loop_alive = TRUE
    /\ observation = NoObservation
    /\ emitted = <<>>
    /\ accepted = [p \in Texts |-> 0]
    /\ best = [p \in Texts |-> 0]
    /\ phase = [p \in Texts |-> "none"]
    /\ vote_texts = <<>>
    /\ vote_result = "none"

\* time passes, far enough for two sweeps that both remove candidates
TickLong ==
    /\ clock + TickStep <= MaxLongTime
    /\ clock' = clock + TickStep
    /\ Quiet
    /\ UNCHANGED <<impl, plates_seen, confirmed_plates, recorded_plates, now_ts,
                   pc_reaper, loop_alive, accepted, best, phase,
                   vote_texts, vote_result, program, threads>>

\* detection_loop, every program: a box whose text is too short is skipped
detection_loop_continue(plate_text, conf, crop) ==
    /\ loop_alive
    /\ TooShort(plate_text)
    /\ observation' = [plate_text |-> plate_text, conf |-> conf, crop |-> crop]
    /\ emitted' = <<>>
    /\ UNCHANGED <<impl, plates_seen, confirmed_plates, recorded_plates, clock,
                   now_ts, pc_reaper, loop_alive, accepted, best, phase,
                   vote_texts, vote_result, program, threads>>

\* faulty variant: the upload marks the text as recorded
RecordedAfterUpload_marks(recorded, plate_text) == recorded \cup {plate_text}

\* process_image saves its images "without marking recorded_plates"
RecordedAfterUpload(recorded, plate_text) == recorded

\* process_image, for one box of an uploaded image. It takes no lock and reads
\* and writes none of plates_seen, confirmed_plates, recorded_plates.
\* LPProcessor publishes every text of four characters or more;
\* plate_capture_easyocr_livestream publishes nothing; app_trial_livestream has
\* no such function.
process_image(plate_text, ocr_conf, crop, ok) ==
    /\ program # "app_trial_livestream"
    /\ observation' = NoObservation
    /\ IF impl = "LPProcessor" /\ ~TooShort(plate_text)
       THEN emitted' = <<Event(UploadTag(program), plate_text, ocr_conf, crop, ok)>>
       ELSE /\ ok   \* no publish_event call: its outcome is no input
            /\ emitted' = <<>>
    /\ recorded_plates' = RecordedAfterUpload(recorded_plates, plate_text)
    /\ UNCHANGED <<impl, plates_seen, confirmed_plates, clock,
                   now_ts, pc_reaper, loop_alive, accepted, best, phase,
                   vote_texts, vote_result, program, threads>>

\* one confidence and one crop: the claims checked here do not depend on them
NextPrograms ==
    \/ TickLong
    \/ exit_watcher_now
    \/ exit_watcher
    \/ LPProcessor_exit_watcher
    \/ \E plate_text \in OcrTexts, conf \in {95}, crop \in {"crop1"} :
         \/ detection_loop_continue(plate_text, conf, crop)
         \/ \E ok \in BOOLEAN :
              \/ detection_loop_trial(plate_text, conf, crop, ok)
              \/ \E saved \in BOOLEAN :
                   detection_loop_easyocr(plate_text, conf, crop, ok, saved)
              \/ LPProcessor_detection_loop(plate_text, conf, crop, ok)
              \/ process_image(plate_text, conf, crop, ok)

SpecPrograms == InitPrograms /\ [][NextPrograms]_vars

(* ----------- the two threads step by step, with lock and flag ---------- *)
\* faulty variant: the critical sections are entered without waiting
Acquirable_always(l) == TRUE

\* with lock: the thread goes on when no thread holds the lock
Acquirable(l) == l = "free"

\* faulty variant: a failed delivery takes the text out again
ConfirmedAfterPublish_rollback(confirmed, final_text, ok) ==
    IF ok THEN confirmed ELSE confirmed \ {final_text}

\* publish_event writes nothing of the tracker, whatever its outcome
ConfirmedAfterPublish(confirmed, final_text, ok) == confirmed

\* faulty variant: confirmed_plates.remove(pid) without the membership test
RemoveGuard_none(pid) == TRUE

\* if pid in self.confirmed_plates
RemoveGuard(pid) == pid \in confirmed_plates

\* what no step of the threads changes
fixed == <<impl, program, accepted, best, phase, vote_texts, vote_result,
           camera>>

\* time passes
time_passes ==
    /\ clock + TickStep <= MaxTime
    /\ clock' = clock + TickStep
    /\ UNCHANGED <<plates_seen, confirmed_plates, recorded_plates, now_ts,
                   pc_reaper, loop_alive, observation, emitted, fixed, threads>>

\* plate_capture_easyocr_livestream.stop_camera_thread: the flag is set
\* (no other program sets its flag)
stop_camera_thread ==
    /\ impl = "plate_capture_easyocr_livestream"
    /\ ~stop
    /\ stop' = TRUE
    /\ UNCHANGED <<plates_seen, confirmed_plates, recorded_plates, clock, now_ts,
                   pc_reaper, loop_alive, observation, emitted, fixed,
                   lost, lock, pc_producer, expired_pids, frame_texts, saves>>

\* while not _camera_thread_stop.is_set(): the flag is found set
\* (app_trial_livestream: while True)
detection_loop_stop ==
    /\ impl # "app_trial_livestream"
    /\ pc_producer = "loop"
    /\ stop
    /\ pc_producer' = "exited"
    /\ UNCHANGED <<plates_seen, confirmed_plates, recorded_plates, clock, now_ts,
                   pc_reaper, loop_alive, observation, emitted, fixed,
                   lost, lock, expired_pids, stop, frame_texts, saves>>

\* detection_loop: the flag is clear, a frame is read and its boxes are found
detection_loop_frame ==
    /\ pc_producer = "loop"
    /\ loop_alive
    /\ impl # "app_trial_livestream" => ~stop
    /\ pc_producer' = "boxes"
    /\ frame_texts' = {}
    /\ UNCHANGED <<plates_seen, confirmed_plates, recorded_plates, clock, now_ts,
                   pc_reaper, loop_alive, observation, emitted, fixed,
                   lost, lock, expired_pids, stop, saves>>

\* detection_loop: the boxes of the frame are done
detection_loop_next ==
    /\ pc_producer = "boxes"
    /\ pc_producer' = "loop"
    /\ frame_texts' = {}
    /\ UNCHANGED <<plates_seen, confirmed_plates, recorded_plates, clock, now_ts,
                   pc_reaper, loop_alive, observation, emitted, fixed,
                   lost, lock, expired_pids, stop, saves>>

\* detection_loop, one box of the frame: the lock is taken and the candidate
\* is created or updated
detection_loop_update(plate_text, conf, crop) ==
    /\ pc_producer = "boxes"
    /\ Processable(plate_text)
    /\ Acquirable(lock)
    /\ lock' = "producer"
    /\ plates_seen' = Tracked(plates_seen, plate_text, conf, clock, crop)
    /\ observation' = [plate_text |-> plate_text, conf |-> conf, crop |-> crop]
    /\ emitted' = <<>>
    /\ pc_producer' = "check"
    /\ frame_texts' = frame_texts \cup {plate_text}
    /\ UNCHANGED <<confirmed_plates, recorded_plates, clock, now_ts, pc_reaper,
                   loop_alive, fixed, lost, expired_pids, stop, saves>>

\* the thread ends on a KeyError; the with statement gives the lock back
detection_loop_KeyError ==
    /\ pc_producer' = "KeyError"
    /\ loop_alive' = FALSE
    /\ lock' = "free"
    /\ UNCHANGED <<plates_seen, confirmed_plates, recorded_plates, clock, now_ts,
                   pc_reaper, observation, emitted, fixed, lost, expired_pids,
                   stop, frame_texts, saves>>

\* detection_loop: the confirmation check, the lock still held
detection_loop_check ==
    /\ pc_producer = "check"
    /\ LET plate_text == observation.plate_text
       IN IF plate_text \notin DOMAIN plates_seen
          THEN detection_loop_KeyError
          ELSE LET cand == plates_seen[plate_text]
               IN \E final_text \in MajorityVote(cand.texts) :
                    /\ IF /\ Stable(cand)
                          /\ ~AlreadyConfirmed(IF impl = "app_trial_livestream"
                                               THEN plate_text ELSE final_text)
                       THEN /\ confirmed_plates' =
                                  confirmed_plates \cup {final_text}
                            /\ pc_producer' = "publish"
                            /\ UNCHANGED lock
                       ELSE /\ pc_producer' = "boxes"
                            /\ lock' = "free"
                            /\ UNCHANGED confirmed_plates
                    /\ UNCHANGED <<plates_seen, recorded_plates, clock, now_ts,
                                   pc_reaper, loop_alive, observation, emitted,
                                   fixed, lost, expired_pids, stop, frame_texts,
                                   saves>>

\* the confirmation calls save_debug_images / _save_debug_images:
\* plate_capture_easyocr_livestream once for a text not in recorded_plates,
\* LPProcessor at every confirmation, app_trial_livestream never
SavesDebugImages(final_text) ==
    \/ impl = "LPProcessor"
    \/ /\ impl = "plate_capture_easyocr_livestream"
       /\ final_text \notin recorded_plates

\* faulty variant: acquire and release with no try/finally around the call
LockAfterPublish_leak(ok) == IF ok THEN "free" ELSE "producer"

\* the with statement gives the lock back when the block returns or raises
LockAfterPublish(ok) == "free"

\* detection_loop: publish_event and the debug images, called with the lock
\* held; the lock is given back when they return or raise.
\* saved: save_debug_images returned (plate_capture_easyocr_livestream).
detection_loop_publish(ok, saved) ==
    /\ pc_producer = "publish"
    /\ LET plate_text == observation.plate_text
       IN IF plate_text \notin DOMAIN plates_seen
          THEN ok /\ saved /\ detection_loop_KeyError
          ELSE LET cand == plates_seen[plate_text]
               IN \E final_text \in MajorityVote(cand.texts) :
                    /\ emitted' = Published(final_text, cand, observation.conf,
                                            observation.crop, ok)
                    /\ confirmed_plates' =
                          ConfirmedAfterPublish(confirmed_plates, final_text, ok)
                    /\ lost' = IF ok THEN lost \ {final_text}
                               ELSE lost \cup {final_text}
                    /\ IF impl = "plate_capture_easyocr_livestream"
                          /\ final_text \notin recorded_plates
                       THEN recorded_plates' =
                               IF saved THEN recorded_plates \cup {final_text}
                               ELSE recorded_plates
                       ELSE UNCHANGED recorded_plates
                    /\ IF SavesDebugImages(final_text)
                       THEN saves' = [saves EXCEPT ![final_text] =
                                        IF saved THEN @ + 1 ELSE @]
                       ELSE saved /\ UNCHANGED saves
                    /\ IF impl = "app_trial_livestream" /\ ~ok
                       THEN pc_producer' = "raised" /\ loop_alive' = FALSE
                       ELSE pc_producer' = "boxes" /\ UNCHANGED loop_alive
                    /\ lock' = LockAfterPublish(ok)
                    /\ UNCHANGED <<plates_seen, clock, now_ts, pc_reaper,
                                   observation, fixed, expired_pids, stop,
                                   frame_texts>>

\* exit_watcher, every program: while True: now_ts = time.time()
exit_watcher_sample ==
    /\ pc_reaper = "sample"
    /\ now_ts' = clock
    /\ pc_reaper' = "sweep"
    /\ UNCHANGED <<plates_seen, confirmed_plates, recorded_plates, clock,
                   loop_alive, observation, emitted, fixed, threads>>

\* exit_watcher: the lock is taken and expired is computed
exit_watcher_select ==
    /\ pc_reaper = "sweep"
    /\ Acquirable(lock)
    /\ lock' = "reaper"
    /\ expired_pids' = ExpiredAt(plates_seen, now_ts)
    /\ pc_reaper' = "delete"
    /\ UNCHANGED <<plates_seen, confirmed_plates, recorded_plates, clock, now_ts,
                   loop_alive, observation, emitted, fixed, lost, pc_producer,
                   stop, frame_texts, saves>>

\* exit_watcher: the deletions, then the lock is given back. del of an absent
\* key, or set.remove of a text that is no member, raises KeyError and ends
\* the thread.
exit_watcher_delete ==
    /\ pc_reaper = "delete"
    /\ lock' = "free"
    /\ IF \E pid \in expired_pids :
            \/ pid \notin DOMAIN plates_seen
            \/ /\ impl = "LPProcessor"
               /\ RemoveGuard(pid)
               /\ pid \notin confirmed_plates
       THEN /\ pc_reaper' = "KeyError"
            /\ UNCHANGED <<plates_seen, confirmed_plates, lost>>
       ELSE /\ pc_reaper' = "sample"
            /\ plates_seen' = Deleted(plates_seen, expired_pids)
            /\ confirmed_plates' =
                  IF impl = "LPProcessor" THEN confirmed_plates \ expired_pids
                  ELSE confirmed_plates
            /\ lost' = IF impl = "LPProcessor" THEN lost \ expired_pids ELSE lost
    /\ UNCHANGED <<recorded_plates, clock, now_ts, loop_alive, observation,
                   emitted, fixed, pc_producer, expired_pids, stop, frame_texts,
                   saves>>

\* one confidence and one crop: the claims checked here do not depend on them
NextThreads ==
    \/ time_passes
    \/ stop_camera_thread
    \/ detection_loop_stop
    \/ detection_loop_frame
    \/ detection_loop_next
    \/ \E plate_text \in Texts, conf \in {95}, crop \in {"crop1"} :
         detection_loop_update(plate_text, conf, crop)
    \/ detection_loop_check
    \/ \E ok \in BOOLEAN, saved \in BOOLEAN : detection_loop_publish(ok, saved)
    \/ exit_watcher_sample
    \/ exit_watcher_select
    \/ exit_watcher_delete

SpecThreads == Init /\ [][NextThreads]_vars

\* The threads with the scheduling the code relies on: a statement inside a
\* critical section is executed (publish_event and the saving of images
\* return or raise), and a reaper blocked in `with lock` gets the lock, which
\* the detection loop leaves free while it reads and recognizes the next
\* frame.
SpecThreadsFair ==
    /\ SpecThreads
    /\ WF_vars(detection_loop_check)
    /\ WF_vars(\E ok \in BOOLEAN, saved \in BOOLEAN :
                  detection_loop_publish(ok, saved))
    /\ SF_vars(exit_watcher_select)
    /\ WF_vars(exit_watcher_delete)

(* ------------------------------- claims -------------------------------- *)
\* the step handles a detection of text x
Observes(x) == observation'.plate_text = x

\* the step calls publish_event("entry", x, ...)
Enters(x) ==
    \E i \in 1..Len(emitted') :
        emitted'[i].event = "entry" /\ emitted'[i].plate = x

\* the step brings the count of candidate x to STABILITY_COUNT
ReachesStability(x) ==
    /\ x \in DOMAIN plates_seen'
    /\ plates_seen'[x].count = STABILITY_COUNT

\* C1: an observation of x produces an entry event exactly when it is the one
\* that brings the candidate's count to STABILITY_COUNT, in every
\* implementation and under every interleaving with sweeps.
C1_ConfirmsExactlyAtThreshold ==
    [][\A x \in Texts : Observes(x) => (Enters(x) <=> ReachesStability(x))]_vars

\* C1 kept to what every implementation does: an entry event is produced only
\* by the observation that brings the count to STABILITY_COUNT.
C1_EntryOnlyAtThreshold ==
    [][\A x \in Texts : Enters(x) => Observes(x) /\ ReachesStability(x)]_vars

\* C2: an entry event for x is produced only while x is not confirmed, and a
\* second one only after a sweep removed x from plates_seen and from
\* confirmed_plates, the count at that event being the fresh one: the number
\* of observations since that sweep.
C2_NoDuplicateConfirmation ==
    [][\A x \in Texts :
         Enters(x) =>
           /\ x \notin confirmed_plates
           /\ phase[x] \in {"none", "evicted"}
           /\ plates_seen'[x].count = accepted'[x]
           /\ phase[x] = "evicted" => accepted'[x] = STABILITY_COUNT]_vars

\* x has just been confirmed a second time, while y, confirmed, was observed
\* again without an event
C2_Witness ==
    \E x, y \in Texts :
        /\ x # y
        /\ phase[x] = "reentered"
        /\ Len(emitted) = 1 /\ emitted[1].plate = x
        /\ y \in confirmed_plates
        /\ y \in DOMAIN plates_seen /\ plates_seen[y].count > STABILITY_COUNT

\* C3: a text that was confirmed and then expired through a sweep is confirmed
\* again by the last of STABILITY_COUNT further observations made without
\* another expiry in between.
C3_ReEntry ==
    [][\A x \in Texts :
         (/\ phase[x] \in {"expired", "evicted"}
          /\ Observes(x)
          /\ accepted'[x] = STABILITY_COUNT) => Enters(x)]_vars

\* C4: a sweep that removes x from plates_seen leaves x in neither plates_seen
\* nor confirmed_plates, and the next observation of x starts at count 1.
C4_SweepUnconfirms ==
    [][\A x \in Texts :
         /\ (x \in DOMAIN plates_seen /\ x \notin DOMAIN plates_seen')
               => x \notin confirmed_plates'
         /\ (x \notin DOMAIN plates_seen /\ Observes(x))
               => plates_seen'[x].count = 1]_vars

\* the step is a sweep: the reaper's body under the lock
Sweeps == pc_reaper = "sweep" /\ pc_reaper' = "sample"

\* C5: a sweep evaluated at now_ts removes a candidate if and only if
\* now_ts - last_seen > EXIT_TIMEOUT (at equality it stays); every candidate
\* that is not expired keeps its whole record, and every text that is not
\* expired keeps its membership of confirmed_plates.
C5_ExpiryCorrectness ==
    [][Sweeps =>
         /\ \A x \in DOMAIN plates_seen :
              /\ (now_ts - plates_seen[x].last_seen > EXIT_TIMEOUT)
                     <=> (x \notin DOMAIN plates_seen')
              /\ x \in DOMAIN plates_seen' => plates_seen'[x] = plates_seen[x]
         /\ DOMAIN plates_seen' \subseteq DOMAIN plates_seen
         /\ \A x \in Texts :
              (x \in DOMAIN plates_seen' \/ x \notin DOMAIN plates_seen)
                 => (x \in confirmed_plates' <=> x \in confirmed_plates)]_vars

\* the sweep at now_ts has run: it kept a candidate seen exactly EXIT_TIMEOUT
\* before, and removed another
C5_Witness ==
    /\ pc_reaper = "sample"
    /\ \E x \in DOMAIN plates_seen :
         now_ts - plates_seen[x].last_seen = EXIT_TIMEOUT
    /\ \E y \in Texts :
         y \notin DOMAIN plates_seen /\ phase[y] \in {"expired", "evicted"}

\* C6: the count of a candidate is the number of observations of its text
\* accepted since it was created; it starts at 1, grows by exactly 1 with an
\* observation of the text, does not change otherwise, and a candidate leaves
\* only in a sweep.
C6_CountExact ==
    [][\A x \in Texts :
         /\ x \in DOMAIN plates_seen' =>
              /\ plates_seen'[x].count = accepted'[x]
              /\ x \notin DOMAIN plates_seen => plates_seen'[x].count = 1
              /\ x \in DOMAIN plates_seen =>
                   plates_seen'[x].count =
                      plates_seen[x].count + (IF Observes(x) THEN 1 ELSE 0)
         /\ (x \in DOMAIN plates_seen /\ x \notin DOMAIN plates_seen')
               => Sweeps]_vars

\* a candidate created again after its expiry has counted two observations,
\* beside one that counted past the threshold
C6_Witness ==
    \E x, y \in DOMAIN plates_seen :
        /\ phase[x] \in {"expired", "evicted"}
        /\ plates_seen[x].count = 2
        /\ plates_seen[y].count = STABILITY_COUNT + 1

\* C7: the stored confidence is the maximum detector confidence over the
\* observations of the candidate, and it never decreases while the candidate
\* lives.
C7_BestConfidence ==
    [][\A x \in DOMAIN plates_seen' :
         /\ plates_seen'[x].conf = best'[x]
         /\ x \in DOMAIN plates_seen
               => plates_seen'[x].conf >= plates_seen[x].conf]_vars

\* a candidate just observed with a confidence below the one it keeps
C7_Witness ==
    \E x \in DOMAIN plates_seen :
        /\ observation.plate_text = x
        /\ observation.conf < plates_seen[x].conf
        /\ plates_seen[x].count >= 2

\* C8: the entry event carries the text of the confirming observation, the
\* maximum confidence observed for the candidate up to and including it, and
\* the sample of that observation; the next observation of the same text
\* yields no event.
C8_EntryEventContent ==
    [][/\ emitted' # <<>> =>
            /\ Len(emitted') = 1
            /\ emitted'[1].event = "entry"
            /\ emitted'[1].plate = observation'.plate_text
            /\ emitted'[1].plate \in MajorityVote(plates_seen'[emitted'[1].plate].texts)
            /\ emitted'[1].confidence = best'[emitted'[1].plate]
            /\ emitted'[1].crop = observation'.crop
       /\ (emitted # <<>> /\ Observes(emitted[1].plate)) => emitted' = <<>>]_vars

\* an event whose confidence is above that of the confirming observation, and
\* whose sample is that observation's
C8_Witness ==
    /\ Len(emitted) = 1
    /\ emitted[1].confidence = 95
    /\ observation.conf = 85
    /\ observation.crop = "crop2"
    /\ emitted[1].crop = "crop2"

\* C9: the text the vote returns is an element of texts with the most
\* occurrences, and the element with strictly more occurrences than every
\* other one when there is such an element.
C9_MajorityVote ==
    vote_result # "none" =>
        /\ vote_result \in Range(vote_texts)
        /\ \A u \in Range(vote_texts) :
              TextsCount(vote_texts, u) <= TextsCount(vote_texts, vote_result)
        /\ \A t \in Range(vote_texts) :
              (\A u \in Range(vote_texts) \ {t} :
                  TextsCount(vote_texts, u) < TextsCount(vote_texts, t))
                 => vote_result = t

\* the vote over ["AB12CE", "AB12CD", "AB12CD"] has returned "AB12CD"
C9_Witness ==
    /\ vote_texts = <<"AB12CE", "AB12CD", "AB12CD">>
    /\ vote_result = "AB12CD"

\* C10: publish_event is called with tag "entry" once for every text added to
\* confirmed_plates, in the step that adds it, and at no other time.
C10_OneCallPerConfirmation ==
    [][LET added == confirmed_plates' \ confirmed_plates
       IN /\ Len(emitted') = Cardinality(added)
          /\ \A i \in 1..Len(emitted') :
               emitted'[i].event = "entry" /\ emitted'[i].plate \in added
          /\ \A x \in added : Enters(x) /\ Observes(x)]_vars

\* a text has just been added and published, a second one having been before
C10_Witness ==
    /\ Len(emitted) = 1
    /\ emitted[1].plate \in confirmed_plates
    /\ Cardinality(confirmed_plates) = 2

\* C11: a publish_event call that fails does not end the detection loop, in
\* every implementation, and it leaves plates_seen and confirmed_plates as a
\* call that succeeds leaves them.
C11_EmitterFailureTolerated ==
    [][(emitted' # <<>> /\ ~emitted'[1].delivered) =>
          /\ loop_alive'
          /\ plates_seen' = Tracked(plates_seen, observation'.plate_text,
                                    observation'.conf, clock, observation'.crop)
          /\ confirmed_plates' = confirmed_plates \cup {emitted'[1].plate}]_vars

\* C19: every text of confirmed_plates is a key of plates_seen, in every
\* reachable state of every implementation.
C19_ConfirmedBacked == confirmed_plates \subseteq DOMAIN plates_seen

\* C16: a detection whose text has fewer than four characters is skipped
\* before plates_seen, confirmed_plates or recorded_plates are touched and
\* publishes nothing; every key of plates_seen and every member of
\* confirmed_plates has four characters or more.
C16_MinimumLength ==
    [][/\ \A x \in DOMAIN plates_seen' \cup confirmed_plates' : Len(x) >= 4
       /\ (observation' # NoObservation /\ Len(observation'.plate_text) < 4) =>
             /\ UNCHANGED <<plates_seen, confirmed_plates, recorded_plates>>
             /\ emitted' = <<>>]_vars

\* a text of three characters has just been skipped by a loop that had
\* confirmed another text
C16_Witness ==
    /\ observation.plate_text = "AB1"
    /\ confirmed_plates # {}
    /\ \A x \in DOMAIN plates_seen : Len(x) >= 4

\* plates_seen after a sweep evaluated at now
SweepSeen(seen, now) == Deleted(seen, ExpiredAt(seen, now))

\* confirmed_plates after a sweep evaluated at now
SweepConfirmed(seen, confirmed, now) ==
    IF impl = "LPProcessor" THEN confirmed \ ExpiredAt(seen, now) ELSE confirmed

\* the values time.time() takes
Times == {k * TickStep : k \in 0..(MaxLongTime \div TickStep)}

\* C18: a sweep at now_ts followed, with no observation in between, by a sweep
\* at any t >= now_ts leaves plates_seen and confirmed_plates as the sweep at t
\* alone leaves them; with t = now_ts, a sweep repeated changes nothing.
C18_SweepComposition ==
    [][Sweeps =>
         /\ plates_seen' = SweepSeen(plates_seen, now_ts)
         /\ confirmed_plates' =
               SweepConfirmed(plates_seen, confirmed_plates, now_ts)
         /\ \A t \in Times :
              t >= now_ts =>
                /\ SweepSeen(plates_seen', t) = SweepSeen(plates_seen, t)
                /\ SweepConfirmed(plates_seen', confirmed_plates', t) =
                      SweepConfirmed(plates_seen, confirmed_plates, t)]_vars

\* the sweep at 30 has removed one candidate and kept one last seen at 15,
\* which a sweep at 45, the time it is now, removes
C18_Witness ==
    /\ pc_reaper = "sample"
    /\ now_ts = 30
    /\ clock = 45
    /\ \E x \in Texts :
         x \notin DOMAIN plates_seen /\ phase[x] \in {"expired", "evicted"}
    /\ \E y \in DOMAIN plates_seen : plates_seen[y].last_seen = 15

\* C20, as the claim states it: every publish_event call of every code path
\* carries the tag "entry", and a sweep calls publish_event never.
C20_OnlyEntryTag ==
    [][/\ \A i \in 1..Len(emitted') : emitted'[i].event = "entry"
       /\ Sweeps => emitted' = <<>>]_vars

\* C20: a publish_event call of the detection loop carries the tag "entry";
\* a call of process_image carries "ENTRY" in app_trial_upload and
\* "upload_test" in plate_capture_easyocr_upload; a sweep makes no call.
C20_TagByPath ==
    [][/\ \A i \in 1..Len(emitted') :
            IF observation' # NoObservation
            THEN emitted'[i].event = "entry"
            ELSE \/ program = "app_trial_upload" /\ emitted'[i].event = "ENTRY"
                 \/ /\ program = "plate_capture_easyocr_upload"
                    /\ emitted'[i].event = "upload_test"
       /\ Sweeps => emitted' = <<>>]_vars

\* process_image has just published "upload_test" for a text that the
\* detection loop had confirmed
C20_Witness ==
    /\ Len(emitted) = 1
    /\ emitted[1].event = "upload_test"
    /\ emitted[1].plate \in confirmed_plates

\* C12: the text is a member of confirmed_plates when publish_event is called,
\* and stays one when the call fails; while it stays confirmed, no later
\* observation of it reaches publish_event again.
C12_NoRetry ==
    [][/\ (/\ pc_producer = "publish"
           /\ pc_producer' \in {"boxes", "raised"}
           /\ ~emitted'[1].delivered) =>
             /\ emitted'[1].plate \in confirmed_plates
             /\ emitted'[1].plate \in confirmed_plates'
       /\ \A x \in lost :
            /\ x \in confirmed_plates
            /\ (pc_producer = "check" /\ observation.plate_text = x)
                  => pc_producer' # "publish"]_vars

\* a text whose entry event was lost has been observed again, past the
\* threshold, and nothing was published
C12_Witness ==
    \E x \in lost :
        /\ pc_producer = "boxes"
        /\ observation.plate_text = x
        /\ emitted = <<>>
        /\ x \in confirmed_plates
        /\ plates_seen[x].count > STABILITY_COUNT

\* C13: the detection loop is between its update and the end of its
\* confirmation only while it holds the lock, the reaper is between its
\* selection and its deletions only while it holds the lock, the two are never
\* there together, and the observed candidate is in plates_seen until the
\* confirmation is over.
C13_Atomicity ==
    /\ pc_producer \in {"check", "publish"} => lock = "producer"
    /\ pc_reaper = "delete" => lock = "reaper"
    /\ ~(pc_producer \in {"check", "publish"} /\ pc_reaper = "delete")
    /\ pc_producer \in {"check", "publish"}
          => observation.plate_text \in DOMAIN plates_seen

\* the detection loop is between update and check while the reaper, which
\* has a candidate to delete, waits for the lock
C13_Witness ==
    /\ pc_producer = "check"
    /\ lock = "producer"
    /\ pc_reaper = "sweep"
    /\ \E y \in DOMAIN plates_seen :
         now_ts - plates_seen[y].last_seen > EXIT_TIMEOUT

\* C14: the detection loop never holds the lock while it is inside
\* publish_event or the saving of debug images.
C14_NoExternalCallUnderLock == pc_producer = "publish" => lock # "producer"

\* C15: once the flag is set, neither loop begins another iteration.
C15_CleanShutdown ==
    [][stop =>
         /\ pc_reaper = "sample" => pc_reaper' # "sweep"
         /\ pc_producer = "loop" => pc_producer' # "boxes"]_vars

\* C17: neither thread ever ends on a KeyError: the observed key is in
\* plates_seen when the confirmation reads it, every pid of expired is in
\* plates_seen when it is deleted, and remove is called for members only.
C17_NoInternalFailure ==
    /\ pc_producer # "KeyError"
    /\ pc_reaper # "KeyError"
    /\ pc_reaper = "delete" => expired_pids \subseteq DOMAIN plates_seen

\* LPProcessor's reaper has deleted both candidates in one sweep, one of them
\* confirmed and published just before
C17_Witness ==
    /\ impl = "LPProcessor"
    /\ pc_reaper = "sample"
    /\ expired_pids = Texts
    /\ plates_seen = EmptyMap
    /\ Len(emitted) = 1

\* C21: an observation of x stamps the candidate's last_seen with the time it
\* is applied at; no other step changes last_seen, and last_seen never
\* decreases while the candidate exists.
C21_LastSeenInOrder ==
    [][\A x \in DOMAIN plates_seen' :
         /\ Observes(x) => plates_seen'[x].last_seen = clock
         /\ x \in DOMAIN plates_seen =>
              /\ plates_seen'[x].last_seen >= plates_seen[x].last_seen
              /\ ~Observes(x) =>
                    plates_seen'[x].last_seen = plates_seen[x].last_seen]_vars

\* a candidate observed again at 30, the reaper having read its clock at 15,
\* beside a candidate last seen at 0
C21_Witness ==
    \E x, y \in DOMAIN plates_seen :
        /\ observation.plate_text = x
        /\ plates_seen[x].count >= 2
        /\ plates_seen[x].last_seen = 30
        /\ now_ts = 15
        /\ plates_seen[y].last_seen = 0

\* C22: a detection of a text that the loop has handled already in the frame
\* it is in does not advance the candidate's count, so that the count is a
\* number of frames.
C22_OncePerFrame ==
    [][\A x \in frame_texts \cap DOMAIN plates_seen :
         (/\ pc_producer = "boxes"
          /\ pc_producer' = "check"
          /\ observation'.plate_text = x)
            => plates_seen'[x].count = plates_seen[x].count]_vars

\* C24: the confirmation path saves the debug images of a text at most once,
\* also when the text expires and is confirmed again.
C24_SavedOnce == \A x \in Texts : saves[x] <= 1

\* C23: a step that is no detection of the loop, no sweep and no passing of
\* time, which is what a call of process_image is, leaves plates_seen,
\* confirmed_plates and recorded_plates as they are and does not take the lock.
C23_UploadIsolated ==
    [][(observation' = NoObservation /\ UNCHANGED <<pc_reaper, clock>>) =>
          UNCHANGED <<plates_seen, confirmed_plates, recorded_plates, lock>>]_vars

\* process_image has published a text that the tracker, which holds a
\* confirmed candidate, has never seen
C23_Witness ==
    /\ observation = NoObservation
    /\ Len(emitted) = 1
    /\ emitted[1].event = "ENTRY"
    /\ emitted[1].plate \notin DOMAIN plates_seen
    /\ confirmed_plates # {}
    /\ lock = "free"

\* C25: for every key k of plates_seen, texts holds count copies of k and
\* nothing else, so that the vote returns k alone, with no tie, and
\* `plate_text not in confirmed_plates` and `final_text not in
\* confirmed_plates` test the same text.
C25_TextsAreCopies ==
    \A k \in DOMAIN plates_seen :
        /\ Len(plates_seen[k].texts) = plates_seen[k].count
        /\ \A i \in 1..Len(plates_seen[k].texts) : plates_seen[k].texts[i] = k
        /\ MajorityVote(plates_seen[k].texts) = {k}
        /\ \A final_text \in MajorityVote(plates_seen[k].texts) :
              AlreadyConfirmed(final_text) <=> AlreadyConfirmed(k)

\* a candidate observed past the threshold beside a second candidate
C25_Witness ==
    \E k, j \in DOMAIN plates_seen :
        /\ k # j
        /\ plates_seen[k].count = STABILITY_COUNT + 1
        /\ Len(plates_seen[k].texts) = STABILITY_COUNT + 1
        /\ plates_seen[j].count = 2
        /\ k \in confirmed_plates

\* C26: an observation of x that comes more than EXIT_TIMEOUT after the
\* candidate was last seen, no sweep having removed the candidate, continues
\* it: the count grows by 1 and is not set back to 1, and no entry event is
\* produced while x is in confirmed_plates.
C26_ExpiryOnlyBySweep ==
    [][\A x \in DOMAIN plates_seen :
         (Observes(x) /\ clock - plates_seen[x].last_seen > EXIT_TIMEOUT) =>
            /\ plates_seen'[x].count = plates_seen[x].count + 1
            /\ plates_seen'[x].texts = Append(plates_seen[x].texts, x)
            /\ plates_seen'[x].conf >= plates_seen[x].conf
            /\ x \in confirmed_plates => ~Enters(x)]_vars

\* a confirmed candidate observed at 30, past the threshold, while no sweep
\* has been evaluated later than 0
C26_Witness ==
    \E x \in confirmed_plates \cap DOMAIN plates_seen :
        /\ observation.plate_text = x
        /\ plates_seen[x].last_seen = 30
        /\ plates_seen[x].count = STABILITY_COUNT + 1
        /\ emitted = <<>>
        /\ now_ts = 0

\* ---- the ways a program starts and stops its threads ----

\* what the starting and stopping of threads leaves alone
tracker == <<impl, program, plates_seen, confirmed_plates, recorded_plates,
             clock, now_ts, observation, emitted, accepted, best, phase,
             vote_texts, vote_result, lost, lock, pc_producer, expired_pids,
             frame_texts, saves>>

\* the module has been loaded and no statement of its own has run: no reaper
\* thread, no detection loop, _camera_thread is None, the flag is clear
InitCamera ==
    /\ program \in TrackerPrograms
    /\ impl = ImplOf(program)
    /\ plates_seen = EmptyMap
    /\ confirmed_plates = {}
    /\ recorded_plates = {}
    /\ clock = 0
    /\ now_ts = 0
    /\ pc_reaper = "none"
    /\ loop_alive = FALSE
    /\ observation = NoObservation
    /\ emitted = <<>>
    /\ accepted = [p \in Texts |-> 0]
    /\ best = [p \in Texts |-> 0]
    /\ phase = [p \in Texts |-> "none"]
    /\ vote_texts = <<>>
    /\ vote_result = "none"
    /\ lost = {}
    /\ lock = "free"
    /\ pc_producer = "loop"
    /\ expired_pids = {}
    /\ stop = FALSE
    /\ frame_texts = {}
    /\ saves = [p \in Texts |-> 0]
    /\ last_call = "none"
    /\ camera_alive = 0

\* if __name__ == "__main__" of the two livestream programs: the exit_watcher
\* thread is started, then detection_loop runs in the main thread
main ==
    /\ impl \in ModuleLevel
    /\ last_call = "none"
    /\ pc_reaper' = "sample"
    /\ loop_alive' = TRUE
    /\ last_call' = "main"
    /\ UNCHANGED <<tracker, stop, camera_alive>>

\* LPProcessor.__init__: the _exit_watcher thread is started
LPProcessor_init ==
    /\ impl = "LPProcessor"
    /\ last_call = "none"
    /\ pc_reaper' = "sample"
    /\ last_call' = "init"
    /\ UNCHANGED <<tracker, loop_alive, stop, camera_alive>>

\* start_camera_in_thread, called by the importing application
\* (plate_capture_easyocr_livestream) or on the constructed processor
\* (LPProcessor): nothing is done while the last thread is alive; otherwise
\* the flag is cleared and a detection_loop thread is started
start_camera_in_thread ==
    /\ \/ impl = "plate_capture_easyocr_livestream"
          /\ last_call \in {"none", "start", "stop"}
       \/ impl = "LPProcessor" /\ last_call \in {"init", "start"}
    /\ IF camera_alive > 0
       THEN UNCHANGED <<stop, camera_alive, loop_alive>>
       ELSE /\ stop' = FALSE
            /\ camera_alive' = camera_alive + 1
            /\ loop_alive' = TRUE
    /\ last_call' = "start"
    /\ UNCHANGED <<tracker, pc_reaper>>

\* plate_capture_easyocr_livestream.stop_camera_thread, the whole call: the
\* flag is set and the thread is joined for at most 2.0 seconds. joined: the
\* thread has ended within that time.
stop_camera_thread_join(joined) ==
    /\ impl = "plate_capture_easyocr_livestream"
    /\ last_call \in {"none", "start", "stop"}
    /\ camera_alive = 0 => joined
    /\ stop' = TRUE
    /\ IF camera_alive > 0 /\ joined
       THEN camera_alive' = camera_alive - 1 /\ loop_alive' = FALSE
       ELSE UNCHANGED <<camera_alive, loop_alive>>
    /\ last_call' = "stop"
    /\ UNCHANGED <<tracker, pc_reaper>>

\* while not _camera_thread_stop.is_set(): a detection_loop thread finds the
\* flag set and returns
detection_loop_return ==
    /\ impl # "app_trial_livestream"
    /\ camera_alive > 0
    /\ stop
    /\ camera_alive' = camera_alive - 1
    /\ loop_alive' = FALSE
    /\ UNCHANGED <<tracker, pc_reaper, stop, last_call>>

\* one confidence and one crop: the threads' lifetimes do not depend on them
NextCamera ==
    \/ main
    \/ LPProcessor_init
    \/ start_camera_in_thread
    \/ \E joined \in BOOLEAN : stop_camera_thread_join(joined)
    \/ detection_loop_return
    \/ Tick
    \/ exit_watcher_now
    \/ exit_watcher
    \/ LPProcessor_exit_watcher
    \/ \E plate_text \in Texts, ok \in BOOLEAN :
         \/ detection_loop_trial(plate_text, 85, "crop1", ok)
         \/ \E saved \in BOOLEAN :
              detection_loop_easyocr(plate_text, 85, "crop1", ok, saved)
         \/ LPProcessor_detection_loop(plate_text, 85, "crop1", ok)

SpecCamera == InitCamera /\ [][NextCamera]_vars

\* C29: in every program and on every way of starting a detection loop, a
\* reaper thread runs on the same tracker state whenever a detection loop
\* does.
C29_ReaperAlongside == loop_alive => pc_reaper \in {"sample", "sweep"}

\* C30: no two detection loop threads started by start_camera_in_thread are
\* alive together, and while start_camera_in_thread is the last call made a
\* detection loop thread is alive.
C30_CameraLifecycle ==
    /\ camera_alive <= 1
    /\ last_call = "start" => camera_alive = 1 /\ loop_alive

\* C27: every candidate that the reaper deletes was last seen more than
\* EXIT_TIMEOUT before the time of the deletion, with its last_seen read at
\* that time; a candidate refreshed while the reaper waited for the lock
\* stays.
C27_NoPrematureEviction ==
    [][(pc_reaper = "delete" /\ pc_reaper' = "sample") =>
          /\ \A x \in DOMAIN plates_seen \ DOMAIN plates_seen' :
                clock - plates_seen[x].last_seen > EXIT_TIMEOUT
          /\ \A x \in DOMAIN plates_seen :
                plates_seen[x].last_seen >= now_ts => x \in DOMAIN plates_seen']_vars

\* the reaper read its clock at 30 and has deleted a candidate; another one,
\* seen again at 30, has stayed
C27_Witness ==
    /\ pc_reaper = "sample"
    /\ now_ts = 30
    /\ expired_pids # {}
    /\ expired_pids \cap DOMAIN plates_seen = {}
    /\ \E x \in DOMAIN plates_seen :
         plates_seen[x].last_seen = 30 /\ plates_seen[x].count >= 2

\* C28: the lock is held only by a thread that is inside its critical
\* section, so that it is free after every exit from one, a publish_event
\* that raises included; and a reaper that waits for the lock gets it and
\* ends its sweep.
C28_NoLockLeak ==
    /\ [](/\ lock = "producer" <=> pc_producer \in {"check", "publish"}
          /\ lock = "reaper" <=> pc_reaper = "delete")
    /\ (pc_reaper = "sweep") ~> (pc_reaper = "sample")

\* publish_event has raised and ended the detection loop, and the reaper has
\* ended a sweep that it began afterwards
C28_Witness ==
    /\ pc_producer = "raised"
    /\ lock = "free"
    /\ pc_reaper = "sample"
    /\ now_ts = 30
    /\ \E x \in DOMAIN plates_seen : plates_seen[x].last_seen = 30
====
